---------------------------- MODULE Spec2Model ----------------------------
(***************************************************************************)
(* Model of PPCs_vcz.py, the voriconazole plasma concentration estimator.  *)
(*                                                                         *)
(* The program is a Streamlit script: every widget interaction re-runs the *)
(* whole script top to bottom, and the button is True only in the re-run   *)
(* its click triggers.  A re-run rebuilds the page, so what is displayed   *)
(* is exactly what the current run rendered.                               *)
(*                                                                         *)
(* Floats are modelled as exact rationals [nan, n, d] (reduced, d > 0)     *)
(* plus the IEEE value NaN; a Python variable that is not bound yet is     *)
(* Unset.  Formatting with :.3f / :.1f is modelled as rounding (half to    *)
(* even) to an integer number of thousandths / tenths.                     *)
(***************************************************************************)
EXTENDS Integers, Sequences, FiniteSets, TLC

VARIABLES
    daydose,      \* st.sidebar.number_input, mg/day
    time_val,     \* st.sidebar.number_input, in 1/1000 day
    age, weight, alb, crp, tbil,   \* CL/F covariates
    sex_input,    \* selectbox label
    geno_label,   \* selectbox label
    field_order,  \* order in which the keys of the row dict literal are written
    input_row,    \* the DataFrame: sequence of <<column name, value>>
    pc,           \* position of the current script run
    pred_cl, theory_conc, pred_conc,  \* script variables of the estimation block
    cl_calls,     \* arguments of model_cl.predict calls of the current run
    cal_calls,    \* arguments of calibrator.predict calls of the current run
    display,      \* elements rendered in the main area by the current run
    last          \* last completed estimation for the current covariates and dose

vars == <<daydose, time_val, age, weight, alb, crp, tbil, sex_input, geno_label,
          field_order, input_row, pc, pred_cl, theory_conc, pred_conc,
          cl_calls, cal_calls, display, last>>

widgets == <<daydose, time_val, age, weight, alb, crp, tbil, sex_input, geno_label>>

---------------------------------------------------------------------------
(* Bounds of the exploration *)

NumDose == 2        \* how many of DoseSamples are explored
NumTime == 3        \* how many of TimeSamples are explored
NumCov == 2         \* how many sample values per numeric covariate
MaxClUnits == 3     \* clearance model returns k/20 L/h, k in -1..MaxClUnits, or NaN
MaxConcUnits == 3   \* calibrator returns k/20 mg/L, k in -1..MaxConcUnits, or NaN

Prefix(s, k) == {s[i] : i \in 1..(IF k < Len(s) THEN k ELSE Len(s))}

\* sample values of each input, the widget's default first, all inside the
\* widget's min_value..max_value and distinct across the covariates
DoseSamples == <<400, 10, 800>>
TimeSamples == <<7000, 6999, 3000, 0, 60000>>
AgeSamples == <<50, 120, 90>>
WeightSamples == <<60, 200, 100>>
AlbSamples == <<32, 5>>
CrpSamples == <<30, 300>>
TbilSamples == <<12, 500>>

---------------------------------------------------------------------------
(* Float arithmetic *)

RECURSIVE GCD(_, _)
GCD(a, b) == IF b = 0 THEN a ELSE GCD(b, a % b)

Abs(x) == IF x < 0 THEN -x ELSE x

NaN == [nan |-> TRUE, n |-> 0, d |-> 1]
Unset == [nan |-> FALSE, n |-> 0, d |-> 0]

Rat(n, d) ==
    LET s == IF d < 0 THEN -1 ELSE 1
        g == GCD(Abs(n), Abs(d))
    IN [nan |-> FALSE, n |-> (s * n) \div g, d |-> (s * d) \div g]

IsNum(x) == ~x.nan /\ x.d > 0

\* a < b on floats; every comparison with NaN is False
Less(a, b) == IsNum(a) /\ IsNum(b) /\ a.n * b.d < b.n * a.d

Mul(a, b) == IF a.nan \/ b.nan THEN NaN ELSE Rat(a.n * b.n, a.d * b.d)

Div(a, b) == IF a.nan \/ b.nan THEN NaN ELSE Rat(a.n * b.d, a.d * b.n)

\* Python's max(a, b): b if b > a else a
PyMax(a, b) == IF Less(a, b) THEN b ELSE a

Pow10(p) == IF p = 3 THEN 1000 ELSE IF p = 1 THEN 10 ELSE 1

\* f"{x:.<p>f}": the number of 10^-p units shown, or nan
Format(x, p) ==
    IF x.nan THEN [nan |-> TRUE, v |-> 0]
    ELSE LET m == x.n * Pow10(p)
             q == m \div x.d
             r == m % x.d
         IN [nan |-> FALSE,
             v |-> IF 2 * r > x.d THEN q + 1
                   ELSE IF 2 * r = x.d THEN q + (q % 2)
                   ELSE q]

---------------------------------------------------------------------------
(* Section 2 and 3 of the script: features and encodings *)

features_cl == <<"CRP", "ALB", "GenotypingValue", "Age", "Sex", "TBIL", "Weight">>

SexOptions == {"Male", "Female"}
GenoOptions == {"NM (Normal metabolizer)", "IM (Intermediate metabolizer)",
                "PM (Poor metabolizer)"}

\* mutant: the two codes exchanged
sex_Swapped(label) == IF label = "Male" THEN 2 ELSE 1

sex(label) == IF label = "Male" THEN 1 ELSE 2

geno_map == [l \in GenoOptions |->
                IF l = "NM (Normal metabolizer)" THEN 1
                ELSE IF l = "IM (Intermediate metabolizer)" THEN 2
                ELSE 3]

GenotypingValue(label) == geno_map[label]

---------------------------------------------------------------------------
(* Section 4: pharmacokinetic calculation and the input row *)

\* mutant: a floor of 0.01 instead of 0.1
calculate_theoretical_conc_LowFloor(cl, dose_mg_per_day) ==
    LET pred_cl_safe == PyMax(cl, Rat(1, 100))
    IN Div(Rat(dose_mg_per_day, 1), Mul(Rat(24, 1), pred_cl_safe))

calculate_theoretical_conc(cl, dose_mg_per_day) ==
    LET pred_cl_safe == PyMax(cl, Rat(1, 10))
    IN Div(Rat(dose_mg_per_day, 1), Mul(Rat(24, 1), pred_cl_safe))

\* the keys of the dict literal, in the order the script writes them
DictOrder == <<"GenotypingValue", "Weight", "Sex", "CRP", "ALB", "Age", "TBIL">>

\* mutant: the time since initiation written into the Age column
FieldValue_TimeAsAge(key, w) ==
    CASE key = "GenotypingValue" -> geno_map[w.geno_label]
      [] key = "Weight" -> w.weight
      [] key = "Sex" -> sex(w.sex_input)
      [] key = "CRP" -> w.crp
      [] key = "ALB" -> w.alb
      [] key = "Age" -> w.age + w.time_val
      [] key = "TBIL" -> w.tbil

\* the value the script writes under each key
FieldValue(key, w) ==
    CASE key = "GenotypingValue" -> GenotypingValue(w.geno_label)
      [] key = "Weight" -> w.weight
      [] key = "Sex" -> sex(w.sex_input)
      [] key = "CRP" -> w.crp
      [] key = "ALB" -> w.alb
      [] key = "Age" -> w.age
      [] key = "TBIL" -> w.tbil

RowDict(order, w) == [i \in 1..Len(order) |-> <<order[i], FieldValue(order[i], w)>>]

MissingValue == -1   \* pandas fills a column absent from the data with NaN

\* mutant: the values taken by position, the column names only relabelling them
DataFrame_Positional(row, columns) ==
    [i \in 1..Len(columns) |-> <<columns[i], row[i][2]>>]

\* pd.DataFrame([row], columns=columns): one row, the columns selected by name
DataFrame(row, columns) ==
    [i \in 1..Len(columns) |->
        IF \E j \in 1..Len(row) : row[j][1] = columns[i]
        THEN <<columns[i], row[CHOOSE j \in 1..Len(row) : row[j][1] = columns[i]][2]>>
        ELSE <<columns[i], MissingValue>>]

Widgets(d, t, a, w, al, c, tb, s, g) ==
    [daydose |-> d, time_val |-> t, age |-> a, weight |-> w, alb |-> al,
     crp |-> c, tbil |-> tb, sex_input |-> s, geno_label |-> g]

BuildRow(order, w) == DataFrame(RowDict(order, w), features_cl)

---------------------------------------------------------------------------
(* External models *)

ClOutcomes == {Rat(k, 20) : k \in (-1)..MaxClUnits} \cup {NaN}
ConcOutcomes == {Rat(k, 20) : k \in (-1)..MaxConcUnits} \cup {NaN}

NoLast == [set |-> FALSE, time_val |-> 0, row |-> <<>>, pred_cl |-> Unset,
           theory_conc |-> Unset, pred_conc |-> Unset]

---------------------------------------------------------------------------
(* Display elements *)

Elem(kind, f) == [kind |-> kind, nan |-> f.nan, v |-> f.v]
Plain(kind) == [kind |-> kind, nan |-> FALSE, v |-> 0]


\* np.array(x).reshape(-1, 1): one sample with one feature
Reshape(x) == <<<<x>>>>

\* mutant: day 7 itself still counted as before steady state
Advisory_Inclusive(t) == IF t <= 7000 THEN Plain("warning") ELSE Plain("success")

\* the advisory shown at the end of the estimation block
Advisory(t) == IF t < 7000 THEN Plain("warning") ELSE Plain("success")

\* the value shown as "Estimated CL/F (L/h)"
ShownClearance(cl) == Format(cl, 3)

\* everything the estimation block renders, in order
Results(cl, theory, conc, dose, t) ==
    << Plain("subheader_cl"),
       Elem("metric_cl", ShownClearance(cl)),
       Plain("caption_cl"),
       Plain("subheader_conc"),
       Elem("metric_conc", Format(conc, 3)),
       Plain("rule"),
       Plain("subheader_interpretation"),
       Elem("write_dose", Format(Rat(dose, 1), 1)),
       Elem("write_theory", Format(theory, 3)),
       Elem("write_time", Format(Rat(t, 1000), 1)),
       Advisory(t) >>

---------------------------------------------------------------------------
(* State after the first run of the script: widget defaults, no button *)

CurWidgets == Widgets(daydose, time_val, age, weight, alb, crp, tbil,
                      sex_input, geno_label)

DefaultWidgets == Widgets(400, 7000, 50, 60, 32, 30, 12, "Male",
                          "NM (Normal metabolizer)")

InitWith(order) ==
    /\ daydose = DefaultWidgets.daydose
    /\ time_val = DefaultWidgets.time_val
    /\ age = DefaultWidgets.age
    /\ weight = DefaultWidgets.weight
    /\ alb = DefaultWidgets.alb
    /\ crp = DefaultWidgets.crp
    /\ tbil = DefaultWidgets.tbil
    /\ sex_input = DefaultWidgets.sex_input
    /\ geno_label = DefaultWidgets.geno_label
    /\ field_order = order
    /\ input_row = BuildRow(order, DefaultWidgets)
    /\ pc = "idle"
    /\ pred_cl = Unset
    /\ theory_conc = Unset
    /\ pred_conc = Unset
    /\ cl_calls = <<>>
    /\ cal_calls = <<>>
    /\ display = <<>>
    /\ last = NoLast

Init == InitWith(DictOrder)

---------------------------------------------------------------------------
(* A re-run of the script up to the button (lines 1-136) *)

\* A run is synchronous: the widgets are taken to change only between runs
\* (pc idle, done or error), and every re-run starts from an empty page.

SameEstimateInputs(w) ==
    /\ w.daydose = daydose /\ w.age = age /\ w.weight = weight /\ w.alb = alb
    /\ w.crp = crp /\ w.tbil = tbil /\ w.sex_input = sex_input
    /\ w.geno_label = geno_label

Rerun(w, pressed) ==
    /\ pc \in {"idle", "done", "error"}
    /\ daydose' = w.daydose
    /\ time_val' = w.time_val
    /\ age' = w.age
    /\ weight' = w.weight
    /\ alb' = w.alb
    /\ crp' = w.crp
    /\ tbil' = w.tbil
    /\ sex_input' = w.sex_input
    /\ geno_label' = w.geno_label
    /\ input_row' = BuildRow(field_order, w)
    /\ pc' = IF pressed THEN "step1" ELSE "idle"
    /\ pred_cl' = Unset
    /\ theory_conc' = Unset
    /\ pred_conc' = Unset
    /\ cl_calls' = <<>>
    /\ cal_calls' = <<>>
    /\ display' = <<>>
    /\ last' = IF SameEstimateInputs(w) THEN last ELSE NoLast
    /\ UNCHANGED field_order

SetDaydose ==
    \E v \in Prefix(DoseSamples, NumDose) :
        v # daydose /\ Rerun([CurWidgets EXCEPT !.daydose = v], FALSE)

SetTime ==
    \E v \in Prefix(TimeSamples, NumTime) :
        v # time_val /\ Rerun([CurWidgets EXCEPT !.time_val = v], FALSE)

SetAge ==
    \E v \in Prefix(AgeSamples, NumCov) :
        v # age /\ Rerun([CurWidgets EXCEPT !.age = v], FALSE)

SetWeight ==
    \E v \in Prefix(WeightSamples, NumCov) :
        v # weight /\ Rerun([CurWidgets EXCEPT !.weight = v], FALSE)

SetAlb ==
    \E v \in Prefix(AlbSamples, NumCov) :
        v # alb /\ Rerun([CurWidgets EXCEPT !.alb = v], FALSE)

SetCrp ==
    \E v \in Prefix(CrpSamples, NumCov) :
        v # crp /\ Rerun([CurWidgets EXCEPT !.crp = v], FALSE)

SetTbil ==
    \E v \in Prefix(TbilSamples, NumCov) :
        v # tbil /\ Rerun([CurWidgets EXCEPT !.tbil = v], FALSE)

SetSex ==
    \E v \in SexOptions :
        v # sex_input /\ Rerun([CurWidgets EXCEPT !.sex_input = v], FALSE)

SetGeno ==
    \E v \in GenoOptions :
        v # geno_label /\ Rerun([CurWidgets EXCEPT !.geno_label = v], FALSE)

\* st.button(...) is True in the re-run the click triggers
Press == Rerun(CurWidgets, TRUE)

---------------------------------------------------------------------------
(* Section 5: the estimation block *)

\* Step 1: pred_cl = model_cl.predict(input_row)[0]
Step1 ==
    /\ pc = "step1"
    /\ \E v \in ClOutcomes :
          /\ (last.set /\ last.row = input_row) => v = last.pred_cl
          /\ pred_cl' = v
    /\ cl_calls' = Append(cl_calls, input_row)
    /\ pc' = "step2"
    /\ UNCHANGED <<widgets, field_order, input_row, theory_conc, pred_conc,
                   cal_calls, display, last>>

\* model_cl.predict raises: the run stops and Streamlit shows the exception
Step1Raises ==
    /\ pc = "step1"
    /\ cl_calls' = Append(cl_calls, input_row)
    /\ display' = Append(display, Plain("exception"))
    /\ pc' = "error"
    /\ UNCHANGED <<widgets, field_order, input_row, pred_cl, theory_conc,
                   pred_conc, cal_calls, last>>

\* Step 2: theory_conc = calculate_theoretical_conc(pred_cl, daydose)
Step2 ==
    /\ pc = "step2"
    /\ theory_conc' = calculate_theoretical_conc(pred_cl, daydose)
    /\ pc' = "step3"
    /\ UNCHANGED <<widgets, field_order, input_row, pred_cl, pred_conc,
                   cl_calls, cal_calls, display, last>>

\* mutant: the calibrator given the clearance instead of the concentration
Step3_WrongInput ==
    /\ pc = "step3"
    /\ \E v \in ConcOutcomes :
          /\ pred_conc' = PyMax(v, Rat(1, 10))
          /\ (last.set /\ last.theory_conc = theory_conc) => pred_conc' = last.pred_conc
    /\ cal_calls' = Append(cal_calls, Reshape(pred_cl))
    /\ pc' = "render"
    /\ UNCHANGED <<widgets, field_order, input_row, pred_cl, theory_conc,
                   cl_calls, display, last>>

\* Step 3: pred_conc = max(float(calibrator.predict(...)[0]), 0.1)
Step3 ==
    /\ pc = "step3"
    /\ \E v \in ConcOutcomes :
          /\ pred_conc' = PyMax(v, Rat(1, 10))
          /\ (last.set /\ last.theory_conc = theory_conc) => pred_conc' = last.pred_conc
    /\ cal_calls' = Append(cal_calls, Reshape(theory_conc))
    /\ pc' = "render"
    /\ UNCHANGED <<widgets, field_order, input_row, pred_cl, theory_conc,
                   cl_calls, display, last>>

\* mutant: a calibrator failure reported next to the clearance already known
Step3Raises_Partial ==
    /\ pc = "step3"
    /\ cal_calls' = Append(cal_calls, Reshape(theory_conc))
    /\ display' = display \o <<Elem("metric_cl", Format(pred_cl, 3)), Plain("exception")>>
    /\ pc' = "error"
    /\ UNCHANGED <<widgets, field_order, input_row, pred_cl, theory_conc,
                   pred_conc, cl_calls, last>>

\* calibrator.predict raises
Step3Raises ==
    /\ pc = "step3"
    /\ cal_calls' = Append(cal_calls, Reshape(theory_conc))
    /\ display' = Append(display, Plain("exception"))
    /\ pc' = "error"
    /\ UNCHANGED <<widgets, field_order, input_row, pred_cl, theory_conc,
                   pred_conc, cl_calls, last>>

\* lines 150-188: the two columns, the interpretation and the advisory
RenderResults ==
    /\ pc = "render"
    /\ display' = display \o Results(pred_cl, theory_conc, pred_conc, daydose, time_val)
    /\ pc' = "done"
    /\ UNCHANGED <<widgets, field_order, input_row, pred_cl, theory_conc,
                   pred_conc, cl_calls, cal_calls>>

Render == RenderResults /\ UNCHANGED last

\* the same, remembering what the two models answered: the loaded models are
\* deterministic, so the same row or the same theoretical concentration gets
\* the same answer in a later run
RenderRemember ==
    /\ RenderResults
    /\ last' = [set |-> TRUE, time_val |-> time_val, row |-> input_row,
                pred_cl |-> pred_cl, theory_conc |-> theory_conc,
                pred_conc |-> pred_conc]

Next ==
    \/ SetDaydose \/ SetTime \/ SetAge \/ SetWeight \/ SetAlb \/ SetCrp
    \/ SetTbil \/ SetSex \/ SetGeno
    \/ Press
    \/ Step1 \/ Step1Raises \/ Step2 \/ Step3 \/ Step3Raises
    \/ Render

Spec == Init /\ [][Next]_vars

\* Deterministic models: completed estimations are remembered and compared
NextDet ==
    \/ SetDaydose \/ SetTime \/ SetAge \/ SetSex
    \/ Press
    \/ Step1 \/ Step1Raises \/ Step2 \/ Step3 \/ Step3Raises
    \/ RenderRemember

SpecDet == Init /\ [][NextDet]_vars

\* Any order of the keys in the dict literal of the input row
FieldOrders == {[i \in 1..Len(DictOrder) |-> DictOrder[p[i]]] :
                   p \in Permutations(1..Len(DictOrder))}

InitOrder == \E order \in FieldOrders : InitWith(order)

NextOrder == SetSex \/ SetGeno \/ Press \/ Step1 \/ Step1Raises

SpecOrder == InitOrder /\ [][NextOrder]_vars

---------------------------------------------------------------------------
(* Properties *)

HasElem(kind) == \E i \in 1..Len(display) : display[i].kind = kind
ElemOf(kind) == display[CHOOSE i \in 1..Len(display) : display[i].kind = kind]
CountOf(kinds) == Cardinality({i \in 1..Len(display) : display[i].kind \in kinds})

\* a >= b on numbers
AtLeast(a, b) == IsNum(a) /\ IsNum(b) /\ a.n * b.d >= b.n * a.d

\* C1: for every numeric clearance cl and dose d, calculate_theoretical_conc
\* returns d / (24 * max(cl, 0.1)): d / 2.4 when cl <= 0.1, d / (24 * cl)
\* above it.
C1_TheoreticalConc ==
    (theory_conc # Unset /\ IsNum(pred_cl)) =>
        /\ IsNum(theory_conc)
        /\ AtLeast(Rat(1, 10), pred_cl) =>
              theory_conc.n * 24 = 10 * daydose * theory_conc.d
        /\ Less(Rat(1, 10), pred_cl) =>
              theory_conc.n * 24 * pred_cl.n = daydose * pred_cl.d * theory_conc.d

\* the scenario of the spec: clearance 0.0 and dose 400 give 400 / 2.4
C1_Witness ==
    /\ pc = "step3"
    /\ pred_cl = Rat(0, 1)
    /\ daydose = 400
    /\ theory_conc = Rat(4000, 24)

\* C2: the calibrated concentration produced and displayed by a completed
\* estimation is >= 0.1, whatever scalar the calibrator returned.
C2_CalibratedFloor ==
    pc = "done" =>
        /\ AtLeast(pred_conc, Rat(1, 10))
        /\ ~ElemOf("metric_conc").nan
        /\ ElemOf("metric_conc").v >= 100

\* the row the clearance model must be given for the current widget values
ExpectedRow ==
    << <<"CRP", crp>>,
       <<"ALB", alb>>,
       <<"GenotypingValue",
         CASE geno_label = "NM (Normal metabolizer)" -> 1
           [] geno_label = "IM (Intermediate metabolizer)" -> 2
           [] geno_label = "PM (Poor metabolizer)" -> 3>>,
       <<"Age", age>>,
       <<"Sex", CASE sex_input = "Male" -> 1 [] sex_input = "Female" -> 2>>,
       <<"TBIL", tbil>>,
       <<"Weight", weight>> >>

\* C3: whatever the order in which the fields of the row are written, the
\* row passed to the clearance model has the seven columns CRP, ALB,
\* GenotypingValue, Age, Sex, TBIL, Weight in that order, each holding the
\* covariate of that name.
C3_FeatureOrder ==
    /\ Len(input_row) = 7
    /\ input_row = ExpectedRow
    /\ \A i \in 1..Len(cl_calls) : cl_calls[i] = ExpectedRow

\* the model was called with a row written in an order that is neither the
\* script's nor the training order
C3_Witness ==
    /\ Len(cl_calls) = 1
    /\ field_order # DictOrder
    /\ field_order # features_cl
    /\ field_order[1] = "Weight"
    /\ sex_input = "Female"

\* the decoding the training contract fixes
DecodeSex(code) == CASE code = 1 -> "Male" [] code = 2 -> "Female" [] OTHER -> "?"
DecodeGeno(code) ==
    CASE code = 1 -> "NM (Normal metabolizer)"
      [] code = 2 -> "IM (Intermediate metabolizer)"
      [] code = 3 -> "PM (Poor metabolizer)"
      [] OTHER -> "?"

\* C4: Male encodes to 1 and Female to 2, NM to 1, IM to 2 and PM to 3, and
\* decoding the Sex and GenotypingValue entries of the row given to the
\* clearance model recovers the selected labels.
C4_EncodingRoundTrip ==
    \A i \in 1..Len(cl_calls) :
        LET row == cl_calls[i]
        IN /\ row[5][1] = "Sex"
           /\ row[3][1] = "GenotypingValue"
           /\ (sex_input = "Male") = (row[5][2] = 1)
           /\ (sex_input = "Female") = (row[5][2] = 2)
           /\ DecodeSex(row[5][2]) = sex_input
           /\ DecodeGeno(row[3][2]) = geno_label

C4_Witness ==
    /\ Len(cl_calls) = 1
    /\ sex_input = "Female"
    /\ geno_label = "PM (Poor metabolizer)"
    /\ cl_calls[1][5][2] = 2
    /\ cl_calls[1][3][2] = 3

\* C5: a completed estimation shows exactly one advisory: the warning iff
\* the time since initiation is below 7 days, else the success message.
C5_Advisory ==
    pc = "done" =>
        /\ CountOf({"warning", "success"}) = 1
        /\ HasElem("warning") = (time_val < 7000)
        /\ HasElem("success") = (time_val >= 7000)

C5_Witness ==
    /\ pc = "done"
    /\ time_val = 6999
    /\ HasElem("warning")
    /\ ~HasElem("success")

\* C6: an estimation whose inputs agree with an earlier completed one on every
\* covariate and on the dose, but differ in the time since initiation, gives
\* the same row to the clearance model and gets the same clearance,
\* theoretical concentration and calibrated concentration.
C6_TimeOnlyAdvisory ==
    (pc = "render" /\ last.set /\ last.time_val # time_val) =>
        /\ cl_calls = <<last.row>>
        /\ pred_cl = last.pred_cl
        /\ theory_conc = last.theory_conc
        /\ pred_conc = last.pred_conc

C6_Witness ==
    /\ pc = "render"
    /\ last.set
    /\ last.time_val = 7000
    /\ time_val = 3000
    /\ IsNum(pred_cl)

\* C7: when either model call fails the run shows the error and nothing else,
\* and the clearance is never shown unless the calibrated concentration was
\* produced and is shown too.
C7_NoPartialResult ==
    /\ pc = "error" => display = <<Plain("exception")>>
    /\ pc \in {"step1", "step2", "step3", "render"} => display = <<>>
    /\ HasElem("metric_cl") =>
          /\ pred_conc # Unset
          /\ HasElem("metric_conc")
          /\ ~HasElem("exception")

\* the calibrator failed after a clearance had been predicted
C7_Witness ==
    /\ pc = "error"
    /\ IsNum(pred_cl)
    /\ Len(cal_calls) = 1
    /\ pred_conc = Unset

\* C8: the clearance reported by a completed estimation is > 0.
C8_ReportedClearancePositive ==
    pc = "done" =>
        /\ Less(Rat(0, 1), pred_cl)
        /\ ~ElemOf("metric_cl").nan
        /\ ElemOf("metric_cl").v >= 0

\* C9: in the default scenario the row is [30, 32, 1, 50, 1, 12, 60], the
\* advisory is the near-steady-state one, and the theoretical concentration
\* is exactly 400 / (24 * reported clearance).
C9_Scenario ==
    (pc = "done" /\ CurWidgets = DefaultWidgets) =>
        /\ cl_calls = << << <<"CRP", 30>>, <<"ALB", 32>>, <<"GenotypingValue", 1>>,
                            <<"Age", 50>>, <<"Sex", 1>>, <<"TBIL", 12>>,
                            <<"Weight", 60>> >> >>
        /\ HasElem("success")
        /\ IsNum(pred_cl) /\ IsNum(theory_conc)
        /\ theory_conc.n * 24 * pred_cl.n = 400 * pred_cl.d * theory_conc.d

IsResult(e) == e.kind # "exception"

\* C10: a run without the button calls no model and shows nothing; a run with
\* it calls the clearance model once with the assembled row, then computes
\* the theoretical concentration, then calls the calibrator once with exactly
\* that value, and renders results only after the calibrator returned.
C10_Sequence ==
    /\ pc = "idle" => cl_calls = <<>> /\ cal_calls = <<>> /\ display = <<>>
    /\ pc = "step1" => cl_calls = <<>> /\ cal_calls = <<>>
    /\ pc \in {"step2", "step3"} =>
          /\ cl_calls = <<input_row>> /\ cal_calls = <<>>
          /\ pred_cl # Unset
    /\ pc \in {"step3", "render", "done"} =>
          theory_conc = calculate_theoretical_conc(pred_cl, daydose)
    /\ pc \in {"render", "done"} =>
          /\ cl_calls = <<input_row>>
          /\ cal_calls = << <<<<theory_conc>>>> >>
          /\ pred_cl # Unset /\ theory_conc # Unset /\ pred_conc # Unset
    /\ pc = "error" => Len(cl_calls) = 1 /\ Len(cal_calls) <= 1
    /\ (\E i \in 1..Len(display) : IsResult(display[i])) => pc = "done"
    /\ pc = "done" => display = Results(pred_cl, theory_conc, pred_conc, daydose, time_val)

C10_Witness ==
    /\ pc = "done"
    /\ Len(cl_calls) = 1
    /\ Len(cal_calls) = 1
    /\ HasElem("metric_conc")

=============================================================================
